---- MODULE Spec2Model ----
(***************************************************************************)
(* Validation engine of app_container_spec: the tree-shaped Errors of      *)
(* util.rs, the string wrappers, the composite validators for Port,        *)
(* MountPoint, EnvironmentVariable and EventHandler, the flat Port         *)
(* validator of image_manifest.rs, and ACVersion.                          *)
(*                                                                         *)
(* A Rust String is a sequence of one-character strings, <<"t","c","p">>.  *)
(* A u64 is its canonical decimal digit sequence, most significant digit   *)
(* first (<<0>> is zero), so that the whole 64-bit range is representable. *)
(* A Json value is a pair <<variant, payload>>.                            *)
(***************************************************************************)
EXTENDS Integers, Sequences, FiniteSets, TLC

VARIABLES json, path, pc, result, flat_errors, calls

vars == <<json, path, pc, result, flat_errors, calls>>

(***************************************************************************)
(* Bounds of the model.                                                    *)
(***************************************************************************)
\* longest exec array of the enumerated event handler inputs
MaxExecLen == 3
\* longest enumerated string over VersionAlphabet
MaxStrLen == 6
\* longest enumerated string over NameAlphabet
MaxNameLen == 4
\* most push and combine calls made on one Errors accumulator
MaxCalls == 3
\* most messages of an Errors handed to combine
MaxCombined == 2

(***************************************************************************)
(* Option and Result.                                                      *)
(***************************************************************************)
None == <<"None">>
Some(x) == <<"Some", x>>
is_some(o) == o[1] = "Some"
\* name.unwrap() and its like, on a Some; the callers test for None, which panics
unwrap(o) == o[2]
Ok(v) == <<"Ok", v>>
Err(e) == <<"Err", e>>
\* a panic unwinds out of the validator: the caller gets neither Ok nor Err
Panic == <<"Panic", <<>> >>
IsOk(r) == r[1] = "Ok"
IsErr(r) == r[1] = "Err"
IsPanic(r) == r[1] = "Panic"

(***************************************************************************)
(* rustc_serialize::json::Json.                                            *)
(***************************************************************************)
JNull == <<"Null", <<>> >>
JBoolean(b) == <<"Boolean", b>>
JU64(d) == <<"U64", d>>
JI64(n) == <<"I64", n>>
JString(s) == <<"String", s>>
JArray(a) == <<"Array", a>>
JObject(o) == <<"Object", o>>
\* obj.get(key)
get(obj, key) == IF key \in DOMAIN obj THEN Some(obj[key]) ELSE None

(***************************************************************************)
(* util::Errors, the error tree.                                           *)
(***************************************************************************)
Node(msgs) == <<"Node", msgs>>
Array(slots) == <<"Array", slots>>
Object(map) == <<"Object", map>>
\* BTreeMap::new() and BTreeMap::insert
BTreeMap_new == <<>>
insert(map, k, v) == [x \in (DOMAIN map) \cup {k} |-> IF x = k THEN v ELSE map[x]]
is_empty(map) == DOMAIN map = {}

(***************************************************************************)
(* u64 arithmetic on decimal digit sequences.                              *)
(***************************************************************************)
U64_MAX == <<1,8,4,4,6,7,4,4,0,7,3,7,0,9,5,5,1,6,1,5>>
RECURSIVE StripZeros(_)
StripZeros(d) == IF Len(d) > 1 /\ d[1] = 0 THEN StripZeros(Tail(d)) ELSE d
RECURSIVE LexLt(_, _)
LexLt(a, b) ==
  IF a = <<>> THEN FALSE
  ELSE IF a[1] # b[1] THEN a[1] < b[1]
  ELSE LexLt(Tail(a), Tail(b))
\* a < b for canonical digit sequences
DecLt(a, b) == Len(a) < Len(b) \/ (Len(a) = Len(b) /\ LexLt(a, b))
RECURSIVE Dec(_)
\* the canonical digit sequence of a small natural number
Dec(n) == IF n < 10 THEN <<n>> ELSE Append(Dec(n \div 10), n % 10)
RECURSIVE ModPow16(_, _)
\* the value of digit sequence d modulo 2^16, with r the value of the digits read
ModPow16(d, r) ==
  IF d = <<>> THEN r ELSE ModPow16(Tail(d), (r * 10 + d[1]) % 65536)
\* `p as u16`: the low 16 bits
as_u16(p) == ModPow16(p, 0)

(***************************************************************************)
(* Characters.                                                             *)
(***************************************************************************)
AsciiDigit == {"0","1","2","3","4","5","6","7","8","9"}
\* ARABIC-INDIC DIGIT THREE, a member of \p{Nd} that is no ASCII digit
ArabicThree == "U+0663"
\* \d of the regex crate is \p{Nd}
UnicodeDigit == AsciiDigit \cup {ArabicThree}
NonZeroDigit == AsciiDigit \ {"0"}
Lower == {"a","b","c","d","e","f","g","h","i","j","k","l","m",
          "n","o","p","q","r","s","t","u","v","w","x","y","z"}
Upper == {"A","B","C","D","E","F","G","H","I","J","K","L","M",
          "N","O","P","Q","R","S","T","U","V","W","X","Y","Z"}
DigitOf(c) ==
  CASE c = "0" -> 0 [] c = "1" -> 1 [] c = "2" -> 2 [] c = "3" -> 3 [] c = "4" -> 4
    [] c = "5" -> 5 [] c = "6" -> 6 [] c = "7" -> 7 [] c = "8" -> 8 [] c = "9" -> 9

(***************************************************************************)
(* Regular expressions, matched from position i of s (1-based); each       *)
(* operator yields the set of positions at which a match can end.          *)
(***************************************************************************)
RECURSIVE StarEnds(_, _, _)
\* class*: every position reachable from i by consuming characters of class
StarEnds(s, i, class) ==
  {i} \cup (IF i <= Len(s) /\ s[i] \in class THEN StarEnds(s, i + 1, class) ELSE {})
\* class+
PlusEnds(s, i, class) == StarEnds(s, i, class) \ {i}
RECURSIVE RunsEnds(_, _, _, _)
\* ( [seps] [run]+ )*
RunsEnds(s, i, seps, run) ==
  {i} \cup UNION { RunsEnds(s, j, seps, run) :
                   j \in (IF i <= Len(s) /\ s[i] \in seps
                          THEN PlusEnds(s, i + 1, run) ELSE {}) }
\* ^[a-z0-9]+([-][a-z0-9]+)*$
AC_NAME_REGEX_is_match(s) ==
  Len(s) + 1 \in UNION { RunsEnds(s, j, {"-"}, Lower \cup AsciiDigit) :
                         j \in PlusEnds(s, 1, Lower \cup AsciiDigit) }
\* ^[a-zA-Z][a-zA-Z0-9_]*$
ENVIRONMENT_VARIABLE_NAME_REGEX_is_match(s) ==
  /\ Len(s) >= 1
  /\ s[1] \in Lower \cup Upper
  /\ Len(s) + 1 \in StarEnds(s, 2, Lower \cup Upper \cup AsciiDigit \cup {"_"})
\* \d|([1-9]\d*)
SemverPartEnds(s, i) ==
  (IF i <= Len(s) /\ s[i] \in UnicodeDigit THEN {i + 1} ELSE {})
  \cup (IF i <= Len(s) /\ s[i] \in NonZeroDigit
        THEN StarEnds(s, i + 1, UnicodeDigit) ELSE {})
\* a literal \. at position i
DotEnds(s, i) == IF i <= Len(s) /\ s[i] = "." THEN {i + 1} ELSE {}
\* SEMVER_REGEX.captures: the set of (major, minor, patch) capture triples of a
\* match of the whole of s; the regex is unambiguous, so there is at most one
SEMVER_REGEX_captures(s) ==
  UNION { UNION { UNION { UNION {
    IF Len(s) + 1 \in SemverPartEnds(s, d)
    THEN { <<SubSeq(s, 1, a - 1), SubSeq(s, b, c - 1), SubSeq(s, d, Len(s))>> }
    ELSE {}
    : d \in DotEnds(s, c) } : c \in SemverPartEnds(s, b) }
    : b \in DotEnds(s, a) } : a \in SemverPartEnds(s, 1) }

(***************************************************************************)
(* str::parse::<u64>: an optional leading +, then one or more ASCII        *)
(* digits, the value checked against the 64-bit range.                     *)
(***************************************************************************)
parse_u64(s) ==
  LET digits == IF Len(s) >= 1 /\ s[1] = "+" THEN Tail(s) ELSE s
      value == StripZeros([i \in 1..Len(digits) |-> DigitOf(digits[i])])
  IN  IF digits = <<>> THEN Err("Empty")
      ELSE IF \E i \in 1..Len(digits) : digits[i] \notin AsciiDigit THEN Err("InvalidDigit")
      ELSE IF DecLt(U64_MAX, value) THEN Err("Overflow")
      ELSE Ok(value)

(***************************************************************************)
(* util.rs: the string wrappers.                                           *)
(***************************************************************************)
\* impl StringWrapper for String
String_from_string(s) == Ok(s)
\* impl<T: StringWrapper> Parseable for T, at T = String
String_from_json(j) ==
  IF j[1] = "String" THEN String_from_string(j[2])
  ELSE Err(Node(<<"must be a string">>))

\* impl StringWrapper for EnvironmentVariableName
EnvironmentVariableName_from_string(s) ==
  IF ENVIRONMENT_VARIABLE_NAME_REGEX_is_match(s) THEN Ok(s)
  ELSE Err(Node(<<"has invalid formatting.">>))
EnvironmentVariableName_from_json(j) ==
  IF j[1] = "String" THEN EnvironmentVariableName_from_string(j[2])
  ELSE Err(Node(<<"must be a string">>))

PreStart == <<"p","r","e","-","s","t","a","r","t">>
PostStop == <<"p","o","s","t","-","s","t","o","p">>
\* impl StringWrapper for EventHandlerName
EventHandlerName_from_string(s) ==
  IF s = PreStart THEN Ok("PreStart")
  ELSE IF s = PostStop THEN Ok("PostStop")
  ELSE Err(Node(<<"must be a valid event handler name.">>))
EventHandlerName_from_json(j) ==
  IF j[1] = "String" THEN EventHandlerName_from_string(j[2])
  ELSE Err(Node(<<"must be a string">>))

(***************************************************************************)
(* types.rs: the flat Errors, a Vec<String>, and ACName.  A message or a   *)
(* path is a TLA+ string and format! is concatenation.                     *)
(***************************************************************************)
Errors(v) == v
push(errors, error) == Append(errors, error)
\* combine as it would be if it took the other list in place of its own
combine_replaces(errors, other) == other
RECURSIVE combine(_, _)
\* for error in other.0 { self.0.push(error.clone()) }
combine(errors, other) ==
  IF other = <<>> THEN errors ELSE combine(push(errors, Head(other)), Tail(other))
Errors_is_empty(errors) == Len(errors) = 0

AC_NAME_TYPE_URL == "https://github.com/appc/spec/blob/v0.7.4/spec/types.md#ac-name-type"
ACName_error_path(p) == IF is_some(p) THEN p[2] ELSE "AC Name"
ACName_from_string(name, p) ==
  IF AC_NAME_REGEX_is_match(name) THEN Ok(name)
  ELSE Err(Errors(<<ACName_error_path(p) \o " must be a valid AC Name.\n" \o AC_NAME_TYPE_URL>>))
ACName_from_json(j, p) ==
  IF j[1] = "String" THEN ACName_from_string(j[2], p)
  ELSE Err(Errors(<<ACName_error_path(p) \o " must be a string.\n" \o AC_NAME_TYPE_URL>>))
\* ACName::from_json(name_json) as the tree validators call it: no path, and the
\* messages of its Errors are the Node stored under the field's key
ACName_from_json_tree(j) ==
  LET r == ACName_from_json(j, None) IN IF IsOk(r) THEN r ELSE Err(Node(r[2]))

(***************************************************************************)
(* types.rs: ACVersion.                                                    *)
(***************************************************************************)
ACVersion_from_json(j) ==
  IF j[1] = "String" THEN
    LET caps == SEMVER_REGEX_captures(j[2]) IN
    IF caps # {} THEN
      LET cap == CHOOSE c \in caps : TRUE
          major == parse_u64(cap[1])
          minor == parse_u64(cap[2])
          patch == parse_u64(cap[3])
      IN  \* each .unwrap() panics on a parse error
          IF IsErr(major) \/ IsErr(minor) \/ IsErr(patch) THEN Panic
          ELSE Ok([major |-> major[2], minor |-> minor[2], patch |-> patch[2]])
    ELSE Err("Invalid AC Version")
  ELSE Err("Invalid AC Version")

(***************************************************************************)
(* types.rs: ACIdentifier, ACKind, ImageID and Isolator.                   *)
(***************************************************************************)
IdentifierSeparators == {"-", ".", "_", "~", "/"}
\* the pattern without its closing anchor: a match of a prefix is enough
AC_IDENTIFIER_REGEX_is_match_unanchored(s) ==
  PlusEnds(s, 1, Lower \cup AsciiDigit) # {}
\* ^[a-z0-9]+([-._~/][a-z0-9]+)*$
AC_IDENTIFIER_REGEX_is_match(s) ==
  Len(s) + 1 \in UNION { RunsEnds(s, j, IdentifierSeparators, Lower \cup AsciiDigit) :
                         j \in PlusEnds(s, 1, Lower \cup AsciiDigit) }

AC_IDENTIFIER_TYPE_URL ==
  "https://github.com/appc/spec/blob/v0.7.4/spec/types.md#ac-identifier-type"
ACIdentifier_parse_error(p, message) ==
  p \o " " \o message \o "\n" \o AC_IDENTIFIER_TYPE_URL
ACIdentifier_from_string(identifier, p) ==
  IF AC_IDENTIFIER_REGEX_is_match(identifier) THEN Ok(identifier)
  ELSE Err(Errors(<<ACIdentifier_parse_error(p, "has invalid formatting.")>>))
ACIdentifier_from_json(j, p) ==
  IF j[1] = "String" THEN ACIdentifier_from_string(j[2], p)
  ELSE Err(Errors(<<ACIdentifier_parse_error(p, "must be a string.")>>))

S_ImageManifest == <<"I","m","a","g","e","M","a","n","i","f","e","s","t">>
S_PodManifest == <<"P","o","d","M","a","n","i","f","e","s","t">>
\* ACKind::from_json takes the Json alone: it is not told which manifest is parsed
ACKind_from_json(j) ==
  IF j[1] = "String" THEN
    IF j[2] = S_ImageManifest THEN Ok("ImageManifest")
    ELSE IF j[2] = S_PodManifest THEN Ok("PodManifest")
    ELSE Err("Invalid AC Kind")
  ELSE Err("Invalid AC Kind")

HexDigit == AsciiDigit \cup {"A","B","C","D","E","F","a","b","c","d","e","f"}
RECURSIVE NotStarEnds(_, _, _)
\* [^excluded]*: every position reachable from i over characters not in excluded
NotStarEnds(s, i, excluded) ==
  {i} \cup (IF i <= Len(s) /\ s[i] \notin excluded
            THEN NotStarEnds(s, i + 1, excluded) ELSE {})
\* IMAGE_ID_REGEX.captures, ^(?P<hash>[^-]+)-(?P<value>[0-9A-Fa-f]+)$: the set of
\* (hash, value) captures of a match of the whole of s
IMAGE_ID_REGEX_captures(s) ==
  { <<SubSeq(s, 1, a - 1), SubSeq(s, a + 1, Len(s))>> :
      a \in { b \in NotStarEnds(s, 1, {"-"}) \ {1} :
                /\ b <= Len(s) /\ s[b] = "-"
                /\ Len(s) + 1 \in PlusEnds(s, b + 1, HexDigit) } }
S_sha512 == <<"s","h","a","5","1","2">>
ImageID_from_json(j) ==
  IF j[1] = "String" THEN
    LET caps == IMAGE_ID_REGEX_captures(j[2]) IN
    IF caps # {} THEN
      LET cap == CHOOSE c \in caps : TRUE IN
      IF cap[1] = S_sha512
      THEN Ok([hash |-> "SHA512", value |-> cap[2]])
      ELSE Err("Invalid Image ID")
    ELSE Err("Invalid Image ID")
  ELSE Err("Invalid Image ID")

ISOLATOR_TYPE_URL == "https://github.com/appc/spec/blob/v0.7.4/spec/types.md#isolator-type"
Isolator_parse_error(p, message) == p \o " " \o message \o "\n" \o ISOLATOR_TYPE_URL
Isolator_parse_name_field(obj, p) ==
  LET new_path == p \o "[\"name\"]" IN
  IF "name" \in DOMAIN obj THEN
    IF obj["name"][1] = "String" THEN ACIdentifier_from_string(obj["name"][2], new_path)
    ELSE Err(Errors(<<Isolator_parse_error(new_path, "must be a string.")>>))
  ELSE Err(Errors(<<Isolator_parse_error(new_path, "must be defined.")>>))

\* match Isolator::parse_name_field(obj, path)
Isolator_name(acc, obj, p) ==
  LET r == Isolator_parse_name_field(obj, p) IN
  IF IsOk(r) THEN [acc EXCEPT !.name = Some(r[2])]
  ELSE [acc EXCEPT !.errors = combine(acc.errors, r[2])]

\* the match as it would be if a missing value were not reported
Isolator_value_ignores_missing(acc, obj, p) ==
  IF "value" \in DOMAIN obj THEN [acc EXCEPT !.value = Some(obj["value"])] ELSE acc

\* the match as it would be if a null value counted as no value
Isolator_value_rejects_null(acc, obj, p) ==
  IF "value" \in DOMAIN obj /\ obj["value"][1] # "Null"
  THEN [acc EXCEPT !.value = Some(obj["value"])]
  ELSE [acc EXCEPT !.errors =
          push(acc.errors, Isolator_parse_error(p \o "[\"value\"]", "must be defined."))]

\* match obj.get("value"): any Json is taken, and cloned
Isolator_value(acc, obj, p) ==
  IF "value" \in DOMAIN obj
  THEN [acc EXCEPT !.value = Some(obj["value"])]
  ELSE [acc EXCEPT !.errors =
          push(acc.errors, Isolator_parse_error(p \o "[\"value\"]", "must be defined."))]

Isolator_locals == [errors |-> Errors(<<>>), name |-> None, value |-> None]

Isolator_from_json(j, p) ==
  IF j[1] = "Object" THEN
    LET acc == Isolator_value(Isolator_name(Isolator_locals, j[2], p), j[2], p) IN
    IF ~Errors_is_empty(acc.errors) THEN Err(acc.errors)
    ELSE IF is_some(acc.name) /\ is_some(acc.value)
         THEN Ok([name |-> unwrap(acc.name), value |-> unwrap(acc.value)])
         ELSE Panic
  ELSE Err(Errors(<<Isolator_parse_error(p, "must be an object.")>>))

(***************************************************************************)
(* event_handler.rs and image_manifest.rs: the exec array of an event      *)
(* handler.  The loop body is shared; the two files differ in the test     *)
(* that decides between Ok(result) and Err(Errors::Array(errors)).         *)
(***************************************************************************)
RECURSIVE exec_loop_skips_none(_, _, _)
\* the loop as it would be with errors.push(None) left out of the Ok arm
exec_loop_skips_none(arr, i, acc) ==
  IF i > Len(arr) THEN acc
  ELSE LET r == String_from_json(arr[i]) IN
       exec_loop_skips_none(arr, i + 1,
         IF IsOk(r)
         THEN [result |-> Append(acc.result, r[2]), errors |-> acc.errors]
         ELSE [result |-> acc.result, errors |-> Append(acc.errors, Some(r[2]))])

RECURSIVE exec_loop(_, _, _)
\* for i in 0..arr.len(): acc is [result, errors] after the elements before i
exec_loop(arr, i, acc) ==
  IF i > Len(arr) THEN acc
  ELSE LET r == String_from_json(arr[i]) IN
       exec_loop(arr, i + 1,
         IF IsOk(r)
         THEN [result |-> Append(acc.result, r[2]), errors |-> Append(acc.errors, None)]
         ELSE [result |-> acc.result, errors |-> Append(acc.errors, Some(r[2]))])

\* event_handler.rs: errors.iter().any(|&e| e.is_some())
exec_from_json(j) ==
  IF j[1] = "Array" THEN
    LET acc == exec_loop(j[2], 1, [result |-> <<>>, errors |-> <<>>]) IN
    IF \E i \in 1..Len(acc.errors) : is_some(acc.errors[i])
    THEN Err(Array(acc.errors))
    ELSE Ok(acc.result)
  ELSE Err(Node(<<"must be an array">>))

\* image_manifest.rs: errors.is_empty()
EventHandler_exec_from_json(j) ==
  IF j[1] = "Array" THEN
    LET acc == exec_loop(j[2], 1, [result |-> <<>>, errors |-> <<>>]) IN
    IF acc.errors = <<>>
    THEN Ok(acc.result)
    ELSE Err(Array(acc.errors))
  ELSE Err(Node(<<"must be an array">>))

(***************************************************************************)
(* The composite validators.  Each keeps the accumulator of its locals     *)
(* (errors and one variable per field) and runs one match per field.       *)
(***************************************************************************)
MustBeDefined == Node(<<"must be defined">>)
\* the non-object arm as it would be if it returned an Errors::Object without entries
MustBeAnObject_as_empty_object == Object(BTreeMap_new)
MustBeAnObject == Node(<<"must be an object">>)

\* the match as it would be with an empty None arm: a missing key is not reported
required_field_ignores_missing(acc, obj, key, var, r) ==
  IF key \in DOMAIN obj THEN
    IF IsOk(r) THEN [acc EXCEPT ![var] = Some(r[2])]
    ELSE [acc EXCEPT !.errors = insert(acc.errors, key, r[2])]
  ELSE acc

\* the match on obj.get(key) shared by every field validated by a sub-validator:
\* r is the sub-validator's result on the value, when the key is present
required_field(acc, obj, key, var, r) ==
  IF key \in DOMAIN obj THEN
    IF IsOk(r) THEN [acc EXCEPT ![var] = Some(r[2])]
    ELSE [acc EXCEPT !.errors = insert(acc.errors, key, r[2])]
  ELSE [acc EXCEPT !.errors = insert(acc.errors, key, MustBeDefined)]

(* ---- image_manifest/app/port.rs ---- *)
\* the match as it would be if a null count counted as no count
Port_count_null_as_absent(acc, obj) ==
  IF "count" \in DOMAIN obj /\ obj["count"][1] # "Null" THEN
    IF obj["count"][1] = "U64" THEN
      IF DecLt(obj["count"][2], Dec(1))
      THEN [acc EXCEPT !.errors = insert(acc.errors, "count", Node(<<"must be >= 1">>))]
      ELSE [acc EXCEPT !.count = obj["count"][2]]
    ELSE [acc EXCEPT !.errors = insert(acc.errors, "count", Node(<<"must be a positive integer">>))]
  ELSE acc

Port_count(acc, obj) ==
  IF "count" \in DOMAIN obj THEN
    IF obj["count"][1] = "U64" THEN
      IF DecLt(obj["count"][2], Dec(1))
      THEN [acc EXCEPT !.errors = insert(acc.errors, "count", Node(<<"must be >= 1">>))]
      ELSE [acc EXCEPT !.count = obj["count"][2]]
    ELSE [acc EXCEPT !.errors = insert(acc.errors, "count", Node(<<"must be a positive integer">>))]
  ELSE acc

Port_name(acc, obj) ==
  required_field(acc, obj, "name", "name",
                 IF "name" \in DOMAIN obj THEN ACName_from_json_tree(obj["name"]) ELSE None)

\* the match as it would be without the test against 65535
Port_port_without_upper_bound(acc, obj) ==
  IF "port" \in DOMAIN obj THEN
    IF obj["port"][1] = "U64" THEN
      IF DecLt(obj["port"][2], Dec(1))
      THEN [acc EXCEPT !.errors = insert(acc.errors, "port", Node(<<"must be >= 1 and <= 65535">>))]
      ELSE [acc EXCEPT !.port = Some(as_u16(obj["port"][2]))]
    ELSE [acc EXCEPT !.errors = insert(acc.errors, "port", Node(<<"must be a positive integer">>))]
  ELSE [acc EXCEPT !.errors = insert(acc.errors, "port", MustBeDefined)]

Port_port(acc, obj) ==
  IF "port" \in DOMAIN obj THEN
    IF obj["port"][1] = "U64" THEN
      IF DecLt(obj["port"][2], Dec(1)) \/ DecLt(Dec(65535), obj["port"][2])
      THEN [acc EXCEPT !.errors = insert(acc.errors, "port", Node(<<"must be >= 1 and <= 65535">>))]
      ELSE [acc EXCEPT !.port = Some(as_u16(obj["port"][2]))]
    ELSE [acc EXCEPT !.errors = insert(acc.errors, "port", Node(<<"must be a positive integer">>))]
  ELSE [acc EXCEPT !.errors = insert(acc.errors, "port", MustBeDefined)]

Port_protocol(acc, obj) ==
  required_field(acc, obj, "protocol", "protocol",
                 IF "protocol" \in DOMAIN obj THEN String_from_json(obj["protocol"]) ELSE None)

Port_socket_activated(acc, obj) ==
  IF "socketActivated" \in DOMAIN obj THEN
    IF obj["socketActivated"][1] = "Boolean"
    THEN [acc EXCEPT !.socket_activated = obj["socketActivated"][2]]
    ELSE [acc EXCEPT !.errors = insert(acc.errors, "socketActivated", Node(<<"must be a boolean">>))]
  ELSE acc

\* the locals as they would be with count starting at 0 and socket_activated at true
Port_locals_other_defaults ==
  [errors |-> BTreeMap_new, count |-> Dec(0), name |-> None, port |-> None,
   protocol |-> None, socket_activated |-> TRUE]

Port_locals ==
  [errors |-> BTreeMap_new, count |-> Dec(1), name |-> None, port |-> None,
   protocol |-> None, socket_activated |-> FALSE]

Port_from_json(j) ==
  IF j[1] = "Object" THEN
    LET obj == j[2]
        acc == Port_socket_activated(Port_protocol(Port_port(Port_name(
                 Port_count(Port_locals, obj), obj), obj), obj), obj)
    IN  IF is_empty(acc.errors) THEN
          IF is_some(acc.name) /\ is_some(acc.port) /\ is_some(acc.protocol)
          THEN Ok([count |-> acc.count, name |-> unwrap(acc.name), port |-> unwrap(acc.port),
                   protocol |-> unwrap(acc.protocol), socket_activated |-> acc.socket_activated])
          ELSE Panic
        ELSE Err(Object(acc.errors))
  ELSE Err(MustBeAnObject)

(* ---- image_manifest/app/mount_point.rs ---- *)
MountPoint_name(acc, obj) ==
  required_field(acc, obj, "name", "name",
                 IF "name" \in DOMAIN obj THEN ACName_from_json_tree(obj["name"]) ELSE None)

MountPoint_path(acc, obj) ==
  required_field(acc, obj, "path", "path",
                 IF "path" \in DOMAIN obj THEN String_from_json(obj["path"]) ELSE None)

MountPoint_read_only(acc, obj) ==
  IF "readOnly" \in DOMAIN obj THEN
    IF obj["readOnly"][1] = "Boolean"
    THEN [acc EXCEPT !.read_only = obj["readOnly"][2]]
    ELSE [acc EXCEPT !.errors = insert(acc.errors, "readOnly", Node(<<"must be a boolean">>))]
  ELSE acc

MountPoint_locals ==
  [errors |-> BTreeMap_new, name |-> None, path |-> None, read_only |-> FALSE]

MountPoint_from_json(j) ==
  IF j[1] = "Object" THEN
    LET obj == j[2]
        acc == MountPoint_read_only(MountPoint_path(MountPoint_name(
                 MountPoint_locals, obj), obj), obj)
    IN  IF is_empty(acc.errors) THEN
          IF is_some(acc.name) /\ is_some(acc.path)
          THEN Ok([name |-> unwrap(acc.name), path |-> unwrap(acc.path),
                   read_only |-> acc.read_only])
          ELSE Panic
        ELSE Err(Object(acc.errors))
  ELSE Err(MustBeAnObject)

(* ---- image_manifest/app/environment_variable.rs ---- *)
EnvironmentVariable_name(acc, obj) ==
  required_field(acc, obj, "name", "name",
                 IF "name" \in DOMAIN obj
                 THEN EnvironmentVariableName_from_json(obj["name"]) ELSE None)

EnvironmentVariable_value(acc, obj) ==
  required_field(acc, obj, "value", "value",
                 IF "value" \in DOMAIN obj THEN String_from_json(obj["value"]) ELSE None)

EnvironmentVariable_locals == [errors |-> BTreeMap_new, name |-> None, value |-> None]

EnvironmentVariable_from_json(j) ==
  IF j[1] = "Object" THEN
    LET obj == j[2]
        acc == EnvironmentVariable_value(EnvironmentVariable_name(
                 EnvironmentVariable_locals, obj), obj)
    IN  IF is_empty(acc.errors) THEN
          IF is_some(acc.name) /\ is_some(acc.value)
          THEN Ok([name |-> unwrap(acc.name), value |-> unwrap(acc.value)])
          ELSE Panic
        ELSE Err(Object(acc.errors))
  ELSE Err(MustBeAnObject)

(* ---- image_manifest/app/event_handler.rs and image_manifest.rs ---- *)
EventHandler_name(acc, obj) ==
  required_field(acc, obj, "name", "name",
                 IF "name" \in DOMAIN obj
                 THEN EventHandlerName_from_json(obj["name"]) ELSE None)

\* event_handler.rs: the exec field goes through exec_from_json
EventHandler_exec(acc, obj) ==
  required_field(acc, obj, "exec", "exec",
                 IF "exec" \in DOMAIN obj THEN exec_from_json(obj["exec"]) ELSE None)

\* image_manifest.rs: the exec field goes through EventHandler::exec_from_json
image_manifest_EventHandler_exec(acc, obj) ==
  required_field(acc, obj, "exec", "exec",
                 IF "exec" \in DOMAIN obj
                 THEN EventHandler_exec_from_json(obj["exec"]) ELSE None)

EventHandler_locals == [errors |-> BTreeMap_new, name |-> None, exec |-> None]

EventHandler_finish(acc) ==
  IF is_empty(acc.errors) THEN
    IF is_some(acc.name) /\ is_some(acc.exec)
    THEN Ok([name |-> unwrap(acc.name), exec |-> unwrap(acc.exec)])
    ELSE Panic
  ELSE Err(Object(acc.errors))

\* event_handler.rs
EventHandler_from_json(j) ==
  IF j[1] = "Object"
  THEN EventHandler_finish(EventHandler_exec(
         EventHandler_name(EventHandler_locals, j[2]), j[2]))
  ELSE Err(MustBeAnObject)

\* image_manifest.rs
image_manifest_EventHandler_from_json(j) ==
  IF j[1] = "Object"
  THEN EventHandler_finish(image_manifest_EventHandler_exec(
         EventHandler_name(EventHandler_locals, j[2]), j[2]))
  ELSE Err(MustBeAnObject)

(***************************************************************************)
(* image_manifest.rs: the flat Port validator, which reports a list of     *)
(* messages, each prefixed by the path of the field it is about.           *)
(***************************************************************************)
\* parse_error(path, message) is called by image_manifest.rs and defined nowhere
\* in it; it is taken to format like Isolator::parse_error and
\* ACIdentifier::parse_error of types.rs, the link left out
parse_error(p, message) == p \o " " \o message

parse_name_field(obj, p) ==
  LET new_path == p \o "[\"name\"]" IN
  IF "name" \in DOMAIN obj THEN
    IF obj["name"][1] = "String" THEN ACName_from_string(obj["name"][2], Some(new_path))
    ELSE Err(Errors(<<parse_error(new_path, "must be a string.")>>))
  ELSE Err(Errors(<<parse_error(new_path, "must be defined.")>>))

\* the match as it would be without the test against 1
Port_parse_count_field_accepts_zero(obj, p) ==
  LET new_path == p \o "[\"count\"]" IN
  IF "count" \in DOMAIN obj THEN
    IF obj["count"][1] = "U64" THEN Ok(obj["count"][2])
    ELSE Err(Errors(<<parse_error(new_path, "must be a positive integer.")>>))
  ELSE Ok(Dec(1))

Port_parse_count_field(obj, p) ==
  LET new_path == p \o "[\"count\"]" IN
  IF "count" \in DOMAIN obj THEN
    IF obj["count"][1] = "U64" THEN
      IF DecLt(obj["count"][2], Dec(1))
      THEN Err(Errors(<<parse_error(new_path, "must be >= 1.")>>))
      ELSE Ok(obj["count"][2])
    ELSE Err(Errors(<<parse_error(new_path, "must be a positive integer.")>>))
  ELSE Ok(Dec(1))

Port_parse_port_field(obj, p) ==
  LET new_path == p \o "[\"port\"]" IN
  IF "port" \in DOMAIN obj THEN
    IF obj["port"][1] = "U64" THEN
      IF DecLt(obj["port"][2], Dec(1)) \/ DecLt(Dec(65535), obj["port"][2])
      THEN Err(Errors(<<parse_error(new_path, "must be >= 1 and <= 65535.")>>))
      ELSE Ok(as_u16(obj["port"][2]))
    ELSE Err(Errors(<<parse_error(new_path, "must be a positive integer.")>>))
  ELSE Err(Errors(<<parse_error(new_path, "must be a defined.")>>))

Port_parse_protocol_field(obj, p) ==
  LET new_path == p \o "[\"protocol\"]" IN
  IF "protocol" \in DOMAIN obj THEN
    IF obj["protocol"][1] = "String" THEN Ok(obj["protocol"][2])
    ELSE Err(Errors(<<parse_error(new_path, "must be a string.")>>))
  ELSE Err(Errors(<<parse_error(new_path, "must be a defined.")>>))

Port_parse_socket_activated_field(obj, p) ==
  LET new_path == p \o "[\"socketActivated\"]" IN
  IF "socketActivated" \in DOMAIN obj THEN
    IF obj["socketActivated"][1] = "Boolean" THEN Ok(obj["socketActivated"][2])
    ELSE Err(Errors(<<parse_error(new_path, "must be a boolean.")>>))
  ELSE Ok(FALSE)

\* one `match parse_..._field(..) { Ok(v) => var = Some(v), Err(e) => errors.combine(e) }`
flat_field(acc, var, r) ==
  IF IsOk(r) THEN [acc EXCEPT ![var] = Some(r[2])]
  ELSE [acc EXCEPT !.errors = combine(acc.errors, r[2])]

image_manifest_Port_locals ==
  [errors |-> Errors(<<>>), count |-> None, name |-> None, port |-> None,
   protocol |-> None, socket_activated |-> None]

image_manifest_Port_from_json(j, p) ==
  IF j[1] = "Object" THEN
    LET obj == j[2]
        a1 == flat_field(image_manifest_Port_locals, "count", Port_parse_count_field(obj, p))
        a2 == flat_field(a1, "name", parse_name_field(obj, p))
        a3 == flat_field(a2, "port", Port_parse_port_field(obj, p))
        a4 == flat_field(a3, "protocol", Port_parse_protocol_field(obj, p))
        acc == flat_field(a4, "socket_activated", Port_parse_socket_activated_field(obj, p))
    IN  IF Errors_is_empty(acc.errors) THEN
          IF /\ is_some(acc.count) /\ is_some(acc.name) /\ is_some(acc.port)
             /\ is_some(acc.protocol) /\ is_some(acc.socket_activated)
          THEN Ok([count |-> unwrap(acc.count), name |-> unwrap(acc.name),
                   port |-> unwrap(acc.port), protocol |-> unwrap(acc.protocol),
                   socket_activated |-> unwrap(acc.socket_activated)])
          ELSE Panic
        ELSE Err(acc.errors)
  ELSE Err(push(Errors(<<>>), parse_error(p, "must be an object.")))

(***************************************************************************)
(* The inputs: the Json values handed to the validators.                   *)
(***************************************************************************)
S_http == <<"h","t","t","p">>
S_Http == <<"H","t","t","p">>
S_tcp == <<"t","c","p">>
S_data == <<"/","d","a","t","a">>
S_HOME == <<"H","O","M","E">>
S_1X == <<"1","X">>
S_start == <<"s","t","a","r","t">>
S_ls == <<"l","s">>
S_la == <<"-","l","a">>
\* 2^64 - 1, 2^64, and 2^17 + 1 (whose low 16 bits are 1)
D_65536 == Dec(65536)
D_131073 == Dec(131073)
S_U64_MAX == <<"1","8","4","4","6","7","4","4","0","7","3","7","0","9","5","5","1","6","1","5">>
S_U64_OVER == <<"1","8","4","4","6","7","4","4","0","7","3","7","0","9","5","5","1","6","1","6">>

\* a key left out of an object
Absent == <<"Absent", <<>> >>
\* the object holding the keys of f that are not Absent
MkObject(f) == JObject([k \in {x \in DOMAIN f : f[x] # Absent} |-> f[k]])

\* every sequence over alphabet of length at most n
SeqsUpTo(alphabet, n) == UNION { [1..k -> alphabet] : k \in 0..n }

VersionAlphabet == {"0", "1", "."}
VersionStrings ==
  SeqsUpTo(VersionAlphabet, MaxStrLen)
  \cup { <<"1",".","2",".","3">>, <<"1",".","2">>, <<"0","1",".","2",".","3">>,
         <<"1",".","0","2",".","3">>, <<"1",".","2",".","3",".","4">>,
         <<"1","0",".","2","0",".","3","9">>, <<"a",".","b",".","c">>,
         <<"1",".","2",".","3"," ">>, <<"+","1",".","2",".","3">>,
         S_U64_MAX \o <<".","0",".","0">>,
         S_U64_OVER \o <<".","0",".","0">>,
         <<"0",".">> \o S_U64_OVER \o <<".","0">>,
         <<"0",".","0",".">> \o S_U64_OVER,
         <<"0",".","0",".">> \o S_U64_MAX,
         <<ArabicThree,".","0",".","0">>,
         <<"1",ArabicThree,".","0",".","0">> }

OtherStrings == { S_http, S_Http, S_tcp, S_HOME, S_1X, PreStart, PostStop, S_start,
                  <<"a","-","b">>, <<"a","-","-","b">>, <<"-","a">>, <<"a","_","1">> }

ExecElements == { JString(S_ls), JString(S_la), JU64(Dec(1)) }
ExecArrays == { JArray(a) : a \in SeqsUpTo(ExecElements, MaxExecLen) }

NameAlphabet == {"a", "0", "-", ".", "A"}
S_example == <<"e","x","a","m","p","l","e",".","c","o","m","/",
               "r","e","d","u","c","e","-","w","o","r","k","e","r">>
NameStrings ==
  SeqsUpTo(NameAlphabet, MaxNameLen)
  \cup { S_example, <<"a","_","b">>, <<"a","~","b">>, <<"a","/","b">>, <<"a","/","/","b">>,
         <<"a","_">>, <<"~","a">>, <<"a","-",".","b">>, <<"a"," ","b">>, <<"a","+","b">> }

S_deadbeef == <<"d","e","a","d","b","e","e","f">>
S_sha256 == <<"s","h","a","2","5","6">>
ImageIDStrings ==
  { S_sha512 \o <<"-">> \o S_deadbeef, S_sha256 \o <<"-">> \o S_deadbeef,
    S_sha512 \o <<"-">> \o <<"D","E","A","D","0","1">>, S_sha512 \o S_deadbeef,
    S_sha512 \o <<"-">>, <<"-">> \o S_deadbeef, S_sha512 \o <<"-","x","y","z">>,
    S_sha512 \o <<"-","d","e","-","a","d">>, <<"S","H","A","5","1","2","-","a","b">>,
    <<"m","d","5","-","0","0">>, <<"a","-","1">>, S_deadbeef }

KindStrings ==
  { S_ImageManifest, S_PodManifest, <<"i","m","a","g","e","m","a","n","i","f","e","s","t">>,
    <<"p","o","d","m","a","n","i","f","e","s","t">>, <<"P","o","d">>,
    <<"I","m","a","g","e","M","a","n","i","f","e","s","t"," ">> }

NonObjects ==
  { JNull, JBoolean(TRUE), JBoolean(FALSE), JU64(Dec(0)), JU64(Dec(80)), JI64(-1) }
  \cup { JString(s) : s \in VersionStrings \cup OtherStrings \cup NameStrings
                            \cup ImageIDStrings \cup KindStrings }
  \cup ExecArrays

PortObjects ==
  { MkObject(f) : f \in
      [ count : { Absent, JU64(Dec(0)), JU64(Dec(1)), JU64(Dec(3)), JU64(U64_MAX),
                  JNull, JString(<<"1">>) },
        name : { Absent, JString(S_http), JString(S_Http), JU64(Dec(1)) },
        port : { Absent, JU64(Dec(0)), JU64(Dec(1)), JU64(Dec(80)), JU64(Dec(65535)),
                 JU64(D_65536), JU64(D_131073), JU64(U64_MAX), JI64(-1),
                 JString(<<"8","0">>) },
        protocol : { Absent, JString(S_tcp), JNull },
        socketActivated : { Absent, JBoolean(TRUE), JBoolean(FALSE), JNull } ] }

MountPointObjects ==
  { MkObject(f) : f \in
      [ name : { Absent, JString(S_http), JString(S_Http), JU64(Dec(1)) },
        path : { Absent, JString(S_data), JU64(Dec(1)) },
        readOnly : { Absent, JBoolean(TRUE), JBoolean(FALSE), JNull } ] }

EnvironmentVariableObjects ==
  { MkObject(f) : f \in
      [ name : { Absent, JString(S_HOME), JString(S_1X), JU64(Dec(1)) },
        value : { Absent, JString(S_data), JNull } ] }

EventHandlerObjects ==
  { MkObject(f) : f \in
      [ name : { Absent, JString(PreStart), JString(PostStop), JString(S_start), JNull },
        exec : { Absent, JNull } \cup ExecArrays ] }

\* objects with a key no validator declares
ObjectsWithExtraKey ==
  { MkObject(f) : f \in
      [ count : { Absent, JU64(Dec(3)) },
        name : { JString(S_http), JString(S_Http) },
        port : { JU64(Dec(80)), JU64(Dec(0)) },
        protocol : { JString(S_tcp) },
        socketActivated : { Absent, JBoolean(TRUE) },
        extra : { JNull, JString(S_tcp) } ] }
  \cup { MkObject(f) : f \in
      [ name : { JString(S_http), JString(S_HOME), JString(PreStart) },
        path : { Absent, JString(S_data) },
        readOnly : { Absent, JBoolean(TRUE) },
        value : { Absent, JString(S_data) },
        exec : { Absent, JArray(<<>>), JArray(<<JString(S_ls), JString(S_la)>>) },
        extra : { JBoolean(FALSE) } ] }

\* valid objects but for an optional field of the wrong type
WrongTypeObjects ==
  { MkObject(f) : f \in
      [ count : { Absent, JNull, JBoolean(TRUE), JI64(-1), JString(<<"3">>), JArray(<<>>) },
        name : { JString(S_http) },
        port : { JU64(Dec(80)) },
        protocol : { JString(S_tcp) },
        socketActivated : { Absent, JNull, JU64(Dec(1)), JString(S_tcp), JArray(<<>>) } ] }
  \cup { MkObject(f) : f \in
      [ name : { JString(S_http) },
        path : { JString(S_data) },
        readOnly : { JNull, JU64(Dec(0)), JI64(-1), JString(S_data), JArray(<<>>) } ] }

IsolatorValues ==
  { JNull, JBoolean(TRUE), JU64(Dec(80)), JI64(-1), JString(S_tcp), JArray(<<>>),
    JArray(<<JString(S_ls), JNull>>), JObject(<<>>),
    MkObject([limit |-> JU64(Dec(3)), name |-> JNull]) }
IsolatorObjects ==
  { MkObject(f) : f \in
      [ name : { Absent, JString(S_example), JString(S_http), JString(S_Http), JNull },
        value : { Absent } \cup IsolatorValues ] }

\* the paths a caller hands to the flat validators
Paths == { "port", "app[\"ports\"][0]" }

Inputs ==
  NonObjects \cup PortObjects \cup MountPointObjects
  \cup EnvironmentVariableObjects \cup EventHandlerObjects
  \cup ObjectsWithExtraKey \cup WrongTypeObjects \cup IsolatorObjects

(***************************************************************************)
(* The state machine: a caller holds one Json value and calls one          *)
(* validator on it; result is what the call returns.                       *)
(***************************************************************************)
Init ==
  /\ json \in Inputs
  /\ path = ""
  /\ pc = "start"
  /\ result = None
  /\ flat_errors = Errors(<<>>)
  /\ calls = <<>>

PortFromJson ==
  /\ pc = "start"
  /\ result' = Port_from_json(json)
  /\ pc' = "Port"
  /\ UNCHANGED <<json, path, flat_errors, calls>>

MountPointFromJson ==
  /\ pc = "start"
  /\ result' = MountPoint_from_json(json)
  /\ pc' = "MountPoint"
  /\ UNCHANGED <<json, path, flat_errors, calls>>

EnvironmentVariableFromJson ==
  /\ pc = "start"
  /\ result' = EnvironmentVariable_from_json(json)
  /\ pc' = "EnvironmentVariable"
  /\ UNCHANGED <<json, path, flat_errors, calls>>

EventHandlerFromJson ==
  /\ pc = "start"
  /\ result' = EventHandler_from_json(json)
  /\ pc' = "EventHandler"
  /\ UNCHANGED <<json, path, flat_errors, calls>>

ImageManifestEventHandlerFromJson ==
  /\ pc = "start"
  /\ result' = image_manifest_EventHandler_from_json(json)
  /\ pc' = "image_manifest::EventHandler"
  /\ UNCHANGED <<json, path, flat_errors, calls>>

ExecFromJson ==
  /\ pc = "start"
  /\ result' = exec_from_json(json)
  /\ pc' = "exec"
  /\ UNCHANGED <<json, path, flat_errors, calls>>

EventHandlerExecFromJson ==
  /\ pc = "start"
  /\ result' = EventHandler_exec_from_json(json)
  /\ pc' = "image_manifest::exec"
  /\ UNCHANGED <<json, path, flat_errors, calls>>

StringFromJson ==
  /\ pc = "start"
  /\ result' = String_from_json(json)
  /\ pc' = "String"
  /\ UNCHANGED <<json, path, flat_errors, calls>>

EnvironmentVariableNameFromJson ==
  /\ pc = "start"
  /\ result' = EnvironmentVariableName_from_json(json)
  /\ pc' = "EnvironmentVariableName"
  /\ UNCHANGED <<json, path, flat_errors, calls>>

EventHandlerNameFromJson ==
  /\ pc = "start"
  /\ result' = EventHandlerName_from_json(json)
  /\ pc' = "EventHandlerName"
  /\ UNCHANGED <<json, path, flat_errors, calls>>

ACVersionFromJson ==
  /\ pc = "start"
  /\ result' = ACVersion_from_json(json)
  /\ pc' = "ACVersion"
  /\ UNCHANGED <<json, path, flat_errors, calls>>

\* the flat Port validator is handed the Json and the path it sits at
ImageManifestPortFromJson ==
  /\ pc = "start"
  /\ \E p \in Paths :
       /\ path' = p
       /\ result' = image_manifest_Port_from_json(json, p)
  /\ pc' = "image_manifest::Port"
  /\ UNCHANGED <<json, flat_errors, calls>>

ImageIDFromJson ==
  /\ pc = "start"
  /\ result' = ImageID_from_json(json)
  /\ pc' = "ImageID"
  /\ UNCHANGED <<json, path, flat_errors, calls>>

\* the acKind of an ImageManifest (ac_kind: ACKind) goes through ACKind::from_json
ImageManifestACKindFromJson ==
  /\ pc = "start"
  /\ result' = ACKind_from_json(json)
  /\ pc' = "ImageManifest::acKind"
  /\ UNCHANGED <<json, path, flat_errors, calls>>

\* the acKind of a PodManifest goes through the same ACKind::from_json
PodManifestACKindFromJson ==
  /\ pc = "start"
  /\ result' = ACKind_from_json(json)
  /\ pc' = "PodManifest::acKind"
  /\ UNCHANGED <<json, path, flat_errors, calls>>

ACIdentifierFromJson ==
  /\ pc = "start"
  /\ \E p \in Paths :
       /\ path' = p
       /\ result' = ACIdentifier_from_json(json, p)
  /\ pc' = "ACIdentifier"
  /\ UNCHANGED <<json, flat_errors, calls>>

ACNameFromJson ==
  /\ pc = "start"
  /\ \E p \in Paths :
       /\ path' = p
       /\ result' = ACName_from_json(json, Some(p))
  /\ pc' = "ACName"
  /\ UNCHANGED <<json, flat_errors, calls>>

IsolatorFromJson ==
  /\ pc = "start"
  /\ \E p \in Paths :
       /\ path' = p
       /\ result' = Isolator_from_json(json, p)
  /\ pc' = "Isolator"
  /\ UNCHANGED <<json, flat_errors, calls>>

\* the same Json handed to the tree Port validator and to the flat one
BothPortsFromJson ==
  /\ pc = "start"
  /\ \E p \in Paths :
       /\ path' = p
       /\ result' = [tree |-> Port_from_json(json),
                     flat |-> image_manifest_Port_from_json(json, p)]
  /\ pc' = "Port+image_manifest::Port"
  /\ UNCHANGED <<json, flat_errors, calls>>

(***************************************************************************)
(* The flat Errors accumulator on its own: push and combine calls on an    *)
(* Errors that starts empty.  calls is the log of the calls made, kept to  *)
(* state what the accumulator must hold.                                   *)
(***************************************************************************)
Messages ==
  { Isolator_parse_error("isolator[\"name\"]", "must be defined."),
    parse_error("port[\"count\"]", "must be >= 1.") }
CombinedErrors == { Errors(v) : v \in SeqsUpTo(Messages, MaxCombined) }

InitErrors ==
  /\ json = JNull
  /\ path = ""
  /\ pc = "Errors"
  /\ result = None
  /\ flat_errors = Errors(<<>>)
  /\ calls = <<>>

Push ==
  /\ pc = "Errors"
  /\ Len(calls) < MaxCalls
  /\ \E error \in Messages :
       /\ flat_errors' = push(flat_errors, error)
       /\ calls' = Append(calls, <<"push", error>>)
  /\ UNCHANGED <<json, path, pc, result>>

Combine ==
  /\ pc = "Errors"
  /\ Len(calls) < MaxCalls
  /\ \E other \in CombinedErrors :
       /\ flat_errors' = combine(flat_errors, other)
       /\ calls' = Append(calls, <<"combine", other>>)
  /\ UNCHANGED <<json, path, pc, result>>

NextErrors == Push \/ Combine

SpecErrors == InitErrors /\ [][NextErrors]_vars

Next ==
  \/ PortFromJson
  \/ MountPointFromJson
  \/ EnvironmentVariableFromJson
  \/ EventHandlerFromJson
  \/ ImageManifestEventHandlerFromJson
  \/ ExecFromJson
  \/ EventHandlerExecFromJson
  \/ StringFromJson
  \/ EnvironmentVariableNameFromJson
  \/ EventHandlerNameFromJson
  \/ ACVersionFromJson
  \/ ImageManifestPortFromJson
  \/ ImageIDFromJson
  \/ ImageManifestACKindFromJson
  \/ PodManifestACKindFromJson
  \/ ACIdentifierFromJson
  \/ ACNameFromJson
  \/ IsolatorFromJson
  \/ BothPortsFromJson

Spec == Init /\ [][Next]_vars

(***************************************************************************)
(* What the claims speak of, stated apart from the validators' code.       *)
(***************************************************************************)
CompositeValidators ==
  { "Port", "MountPoint", "EnvironmentVariable", "EventHandler",
    "image_manifest::EventHandler" }
ExecValidators == { "exec", "image_manifest::exec" }
TreeValidators ==
  CompositeValidators \cup ExecValidators
  \cup { "String", "EnvironmentVariableName", "EventHandlerName" }

DeclaredFields(v) ==
  CASE v = "Port" -> { "count", "name", "port", "protocol", "socketActivated" }
    [] v = "MountPoint" -> { "name", "path", "readOnly" }
    [] v = "EnvironmentVariable" -> { "name", "value" }
    [] v \in { "EventHandler", "image_manifest::EventHandler" } -> { "name", "exec" }
RequiredFields(v) == DeclaredFields(v) \ { "count", "socketActivated", "readOnly" }

\* the value of a digit sequence of at most 5 digits
RECURSIVE DecValue(_)
DecValue(d) == IF d = <<>> THEN 0 ELSE DecValue(SubSeq(d, 1, Len(d) - 1)) * 10 + d[Len(d)]
InPortRange(d) == Len(d) <= 5 /\ DecValue(d) >= 1 /\ DecValue(d) <= 65535
IsZero(d) == d = <<0>>

AlNum == Lower \cup AsciiDigit
\* non-empty lowercase-alphanumeric runs separated by single hyphens
IsACName(s) ==
  /\ Len(s) >= 1
  /\ \A i \in 1..Len(s) : s[i] \in AlNum \cup {"-"}
  /\ s[1] \in AlNum /\ s[Len(s)] \in AlNum
  /\ \A i \in 1..Len(s) - 1 : ~(s[i] = "-" /\ s[i + 1] = "-")
IsEnvironmentVariableName(s) ==
  /\ Len(s) >= 1
  /\ s[1] \in Lower \cup Upper
  /\ \A i \in 2..Len(s) : s[i] \in Lower \cup Upper \cup AsciiDigit \cup {"_"}
IsStringArray(j) == j[1] = "Array" /\ \A i \in 1..Len(j[2]) : j[2][i][1] = "String"

\* field k of validator v holds a value j that is valid for it
FieldValid(v, k, j) ==
  CASE k = "count" -> j[1] = "U64" /\ ~IsZero(j[2])
    [] k = "port" -> j[1] = "U64" /\ InPortRange(j[2])
    [] k \in { "socketActivated", "readOnly" } -> j[1] = "Boolean"
    [] k \in { "protocol", "path", "value" } -> j[1] = "String"
    [] k = "exec" -> IsStringArray(j)
    [] k = "name" ->
         /\ j[1] = "String"
         /\ CASE v \in { "Port", "MountPoint" } -> IsACName(j[2])
              [] v = "EnvironmentVariable" -> IsEnvironmentVariableName(j[2])
              [] OTHER -> j[2] \in { PreStart, PostStop }

\* the declared fields that are missing-but-required or present-but-invalid
FailingFields(v, obj) ==
  { k \in RequiredFields(v) : k \notin DOMAIN obj }
  \cup { k \in DeclaredFields(v) \cap DOMAIN obj : ~FieldValid(v, k, obj[k]) }

IsErrObject(r) == IsErr(r) /\ r[2][1] = "Object"
IsErrArray(r) == IsErr(r) /\ r[2][1] = "Array"
IsErrNode(r) == IsErr(r) /\ r[2][1] = "Node"

\* an error tree that is present but empty at its root
EmptyButPresent(e) ==
  \/ e[1] = "Node" /\ Len(e[2]) = 0
  \/ e[1] = "Object" /\ DOMAIN e[2] = {}
  \/ e[1] = "Array" /\ \A i \in 1..Len(e[2]) : ~is_some(e[2][i])

(***************************************************************************)
(* C1: every validator returns, for every Json input, a typed value or a   *)
(* non-empty error tree: an Err is never a Node without messages, an       *)
(* Object without entries, or an Array whose every slot is None.           *)
(***************************************************************************)
C1_ErrIsNeverEmpty ==
  (pc \in TreeValidators /\ IsErr(result)) => ~EmptyButPresent(result[2])

(***************************************************************************)
(* C2: on an object, a composite validator examines every declared field,  *)
(* and the keys of the Errors::Object it returns are exactly the declared  *)
(* fields that are missing-but-required or present-but-invalid; with none  *)
(* failing it succeeds.                                                    *)
(***************************************************************************)
KeysAreTheFailingFields ==
  IF FailingFields(pc, json[2]) = {}
  THEN IsOk(result)
  ELSE IsErrObject(result) /\ DOMAIN result[2][2] = FailingFields(pc, json[2])

C2_KeysAreFailingFields ==
  (pc \in CompositeValidators /\ json[1] = "Object") => KeysAreTheFailingFields

(***************************************************************************)
(* C3: an exec array validates, to all its elements in input order, if and *)
(* only if every element is a string; otherwise the validation fails with  *)
(* no list.  Both exec_from_json.                                          *)
(***************************************************************************)
C3_ExecAllOrNothing ==
  (pc \in ExecValidators /\ json[1] = "Array") =>
    IF IsStringArray(json)
    THEN result = Ok([i \in 1..Len(json[2]) |-> json[2][i][2]])
    ELSE IsErr(result)

(***************************************************************************)
(* C4: a failed array validation returns an Errors::Array with one slot    *)
(* per input element; slot i is Some(error) exactly when element i is not  *)
(* a string, whatever its siblings are.                                    *)
(***************************************************************************)
C4_SlotsMirrorElements ==
  (pc \in ExecValidators /\ json[1] = "Array" /\ IsErr(result)) =>
    /\ result[2][1] = "Array"
    /\ Len(result[2][2]) = Len(json[2])
    /\ \A i \in 1..Len(json[2]) :
         result[2][2][i] = IF json[2][i][1] = "String"
                           THEN None
                           ELSE Some(Node(<<"must be a string">>))

C4_Witness ==
  /\ pc = "exec"
  /\ json = JArray(<<JString(S_ls), JU64(Dec(1))>>)
  /\ IsErrArray(result)

(***************************************************************************)
(* C5: an object missing a required field F is rejected with the Node      *)
(* "must be defined" under key F, whatever its other fields hold.          *)
(***************************************************************************)
C5_MissingRequiredField ==
  (pc \in CompositeValidators /\ json[1] = "Object") =>
    \A F \in RequiredFields(pc) \ DOMAIN json[2] :
      /\ IsErrObject(result)
      /\ F \in DOMAIN result[2][2]
      /\ result[2][2][F] = Node(<<"must be defined">>)

C5_Witness ==
  /\ pc = "Port"
  /\ json[1] = "Object"
  /\ DOMAIN json[2] = { "name", "port" }
  /\ IsErrObject(result)
  /\ "protocol" \in DOMAIN result[2][2]

(***************************************************************************)
(* C6: a Json value that is no object makes each composite validator fail  *)
(* with the single Node message "must be an object".                       *)
(***************************************************************************)
C6_NonObjectIsOneNode ==
  (pc \in CompositeValidators /\ json[1] # "Object") =>
    /\ IsErrNode(result)
    /\ result[2][2] = <<"must be an object">>

C6_Witness ==
  /\ pc = "EventHandler"
  /\ json = JArray(<<JString(S_ls)>>)
  /\ IsErrNode(result)

(***************************************************************************)
(* C7: a validated Port has count 1 and socket_activated false when the    *)
(* keys are absent, a validated MountPoint has read_only false when        *)
(* readOnly is absent; a present, valid key's value is the one stored.     *)
(***************************************************************************)
C7_Defaults ==
  /\ (pc \in { "Port", "image_manifest::Port" } /\ IsOk(result)) =>
       /\ result[2].count =
            IF "count" \in DOMAIN json[2] THEN json[2]["count"][2] ELSE <<1>>
       /\ result[2].socket_activated =
            IF "socketActivated" \in DOMAIN json[2]
            THEN json[2]["socketActivated"][2] ELSE FALSE
  /\ (pc = "MountPoint" /\ IsOk(result)) =>
       result[2].read_only =
         IF "readOnly" \in DOMAIN json[2] THEN json[2]["readOnly"][2] ELSE FALSE

C7_Witness ==
  /\ pc = "Port"
  /\ IsOk(result)
  /\ DOMAIN json[2] = { "name", "port", "protocol" }
  /\ result[2].count = <<1>>
  /\ result[2].socket_activated = FALSE

(***************************************************************************)
(* C8: a Port validates only with 1 <= port <= 65535 and count >= 1; a     *)
(* 64-bit port or count outside its range is an error under its key; the   *)
(* stored 16-bit port is the input number, never its truncation.           *)
(***************************************************************************)
\* result r reports message tree_msg (tree validator) or flat_msg (flat validator)
\* for field key
ReportsAt(r, key, tree_msg, flat_msg) ==
  IF pc = "Port"
  THEN IsErrObject(r) /\ key \in DOMAIN r[2][2] /\ r[2][2][key] = Node(<<tree_msg>>)
  ELSE IsErr(r) /\ \E i \in 1..Len(r[2]) :
         r[2][i] = parse_error(path \o "[\"" \o key \o "\"]", flat_msg)

C8_PortRange ==
  (pc \in { "Port", "image_manifest::Port" } /\ json[1] = "Object") =>
    LET obj == json[2] IN
    /\ IsOk(result) =>
         /\ obj["port"][1] = "U64" /\ InPortRange(obj["port"][2])
         /\ Dec(result[2].port) = obj["port"][2]
         /\ "count" \in DOMAIN obj => (obj["count"][1] = "U64" /\ ~IsZero(obj["count"][2]))
    /\ ("port" \in DOMAIN obj /\ obj["port"][1] = "U64" /\ ~InPortRange(obj["port"][2])) =>
         ReportsAt(result, "port", "must be >= 1 and <= 65535", "must be >= 1 and <= 65535.")
    /\ ("count" \in DOMAIN obj /\ obj["count"][1] = "U64" /\ IsZero(obj["count"][2])) =>
         ReportsAt(result, "count", "must be >= 1", "must be >= 1.")

C8_Witness ==
  /\ pc = "Port"
  /\ IsOk(result)
  /\ json[2]["port"] = JU64(<<6,5,5,3,5>>)
  /\ result[2].port = 65535

(***************************************************************************)
(* C9: ACVersion accepts exactly the strings of three dot-separated        *)
(* decimal integers without leading zeros (the literal 0 aside), and       *)
(* major, minor and patch are the three integers in order; everything      *)
(* else, non-strings included, fails.                                      *)
(***************************************************************************)
RECURSIVE SplitDots(_)
\* the pieces of s between its dots
SplitDots(s) ==
  IF \A i \in 1..Len(s) : s[i] # "." THEN <<s>>
  ELSE LET i == CHOOSE k \in 1..Len(s) : s[k] = "." /\ \A m \in 1..k - 1 : s[m] # "."
       IN  <<SubSeq(s, 1, i - 1)>> \o SplitDots(SubSeq(s, i + 1, Len(s)))
IsDecimalInteger(part) ==
  /\ Len(part) >= 1
  /\ \A i \in 1..Len(part) : part[i] \in AsciiDigit
  /\ Len(part) = 1 \/ part[1] # "0"
IsThreeIntegers(s) ==
  /\ Len(SplitDots(s)) = 3
  /\ \A i \in 1..3 : IsDecimalInteger(SplitDots(s)[i])
IntegerOf(part) == [i \in 1..Len(part) |-> DigitOf(part[i])]

C9_VersionAcceptsExactly ==
  pc = "ACVersion" =>
    IF json[1] = "String" /\ IsThreeIntegers(json[2])
    THEN result = Ok([major |-> IntegerOf(SplitDots(json[2])[1]),
                      minor |-> IntegerOf(SplitDots(json[2])[2]),
                      patch |-> IntegerOf(SplitDots(json[2])[3])])
    ELSE IsErr(result)

(***************************************************************************)
(* C10: ACVersion::from_json never panics: for every Json input it returns *)
(* Ok or Err, also for a version whose component exceeds 64 bits.          *)
(***************************************************************************)
C10_VersionNeverPanics ==
  pc = "ACVersion" => ~IsPanic(result)

\* s has the <alg>-<hex> syntax: a non-empty tag without hyphen, one hyphen, and
\* a non-empty run of hexadecimal digits
HyphenOf(s) == CHOOSE k \in 1..Len(s) : s[k] = "-" /\ \A i \in 1..(k - 1) : s[i] # "-"
IsAlgHex(s) ==
  /\ \E k \in 1..Len(s) : s[k] = "-"
  /\ HyphenOf(s) > 1
  /\ HyphenOf(s) < Len(s)
  /\ \A i \in (HyphenOf(s) + 1)..Len(s) : s[i] \in HexDigit
AlgOf(s) == SubSeq(s, 1, HyphenOf(s) - 1)
HexOf(s) == SubSeq(s, HyphenOf(s) + 1, Len(s))
\* the diagnostic ImageID::from_json gives for a string without the syntax
MalformedImageIDDiagnostic == ImageID_from_json(JString(<<"-">>))[2]

(***************************************************************************)
(* C11: ImageID::from_json of a string <alg>-<hex> with alg = "sha512"     *)
(* succeeds with algorithm SHA512 and the hex part as value; with any      *)
(* other algorithm tag it fails, with a diagnostic that differs from the   *)
(* one given for a string that does not have the <alg>-<hex> syntax.       *)
(***************************************************************************)
C11_ImageID ==
  (pc = "ImageID" /\ json[1] = "String") =>
    IF IsAlgHex(json[2])
    THEN IF AlgOf(json[2]) = S_sha512
         THEN result = Ok([hash |-> "SHA512", value |-> HexOf(json[2])])
         ELSE IsErr(result) /\ result[2] # MalformedImageIDDiagnostic
    ELSE IsErr(result)

\* the kind a manifest validator expects, and the valid kind of the other manifest
ExpectedKind(v) == IF v = "ImageManifest::acKind" THEN S_ImageManifest ELSE S_PodManifest
OtherKind(v) == IF v = "ImageManifest::acKind" THEN S_PodManifest ELSE S_ImageManifest
KindName(s) == IF s = S_ImageManifest THEN "ImageManifest" ELSE "PodManifest"
\* the diagnostic ACKind::from_json gives for a string that is no kind at all
InvalidKindDiagnostic == ACKind_from_json(JString(<<>>))[2]

(***************************************************************************)
(* C12: the acKind of a manifest is checked against the manifest type: the *)
(* manifest's own kind, spelled exactly, is accepted; the valid kind of    *)
(* the other manifest type is rejected, with a failure that differs from   *)
(* the one for a string that is no kind at all; every other string,        *)
(* a different capitalisation included, is rejected.                       *)
(***************************************************************************)
C12_KindMatchesManifest ==
  (pc \in {"ImageManifest::acKind", "PodManifest::acKind"} /\ json[1] = "String") =>
    IF json[2] = ExpectedKind(pc)
    THEN result = Ok(KindName(json[2]))
    ELSE IF json[2] = OtherKind(pc)
         THEN IsErr(result) /\ result[2] # InvalidKindDiagnostic
         ELSE IsErr(result)

\* non-empty lowercase-alphanumeric runs separated by single characters of seps
IsSeparatedRuns(s, seps) ==
  /\ Len(s) >= 1
  /\ \A i \in 1..Len(s) : s[i] \in AlNum \cup seps
  /\ s[1] \in AlNum /\ s[Len(s)] \in AlNum
  /\ \A i \in 1..Len(s) - 1 : ~(s[i] \in seps /\ s[i + 1] \in seps)
IsACIdentifier(s) == IsSeparatedRuns(s, {"-", ".", "_", "~", "/"})

(***************************************************************************)
(* C13: ACIdentifier::from_json accepts, unchanged, exactly the strings    *)
(* made of non-empty lowercase-alphanumeric runs separated by single       *)
(* characters of - . _ ~ / and ACName::from_json exactly those separated   *)
(* by single hyphens; every accepted ACName is an accepted ACIdentifier,   *)
(* and "example.com/reduce-worker" is an ACIdentifier and not an ACName.   *)
(***************************************************************************)
C13_IdentifierAndName ==
  /\ (pc = "ACIdentifier" /\ json[1] = "String") =>
       /\ IF IsACIdentifier(json[2]) THEN result = Ok(json[2]) ELSE IsErr(result)
       /\ json[2] = S_example => IsOk(result)
  /\ (pc = "ACName" /\ json[1] = "String") =>
       /\ IF IsSeparatedRuns(json[2], {"-"}) THEN result = Ok(json[2]) ELSE IsErr(result)
       /\ IsOk(result) => IsOk(ACIdentifier_from_json(json, path))
       /\ json[2] = S_example => IsErr(result)

C13_Witness ==
  /\ pc = "ACIdentifier"
  /\ json = JString(S_example)
  /\ result = Ok(S_example)
  /\ IsErr(ACName_from_json(json, Some(path)))

\* the struct a composite validator is to return for an object whose declared
\* fields are all valid: each field the input value, absent optional fields
\* their default
ExpectedStruct(v, obj) ==
  CASE v = "Port" ->
         [count |-> IF "count" \in DOMAIN obj THEN obj["count"][2] ELSE <<1>>,
          name |-> obj["name"][2],
          port |-> DecValue(obj["port"][2]),
          protocol |-> obj["protocol"][2],
          socket_activated |-> IF "socketActivated" \in DOMAIN obj
                               THEN obj["socketActivated"][2] ELSE FALSE]
    [] v = "MountPoint" ->
         [name |-> obj["name"][2],
          path |-> obj["path"][2],
          read_only |-> IF "readOnly" \in DOMAIN obj THEN obj["readOnly"][2] ELSE FALSE]
    [] v = "EnvironmentVariable" ->
         [name |-> obj["name"][2], value |-> obj["value"][2]]
    [] OTHER ->
         [name |-> IF obj["name"][2] = PreStart THEN "PreStart" ELSE "PostStop",
          exec |-> [i \in 1..Len(obj["exec"][2]) |-> obj["exec"][2][i][2]]]
\* the object without its undeclared keys
WithoutExtraKeys(v, obj) == [k \in DOMAIN obj \cap DeclaredFields(v) |-> obj[k]]
ValidatorOf(v, j) ==
  CASE v = "Port" -> Port_from_json(j)
    [] v = "MountPoint" -> MountPoint_from_json(j)
    [] v = "EnvironmentVariable" -> EnvironmentVariable_from_json(j)
    [] v = "EventHandler" -> EventHandler_from_json(j)
    [] OTHER -> image_manifest_EventHandler_from_json(j)

(***************************************************************************)
(* C14: a composite validator (Port, MountPoint, EnvironmentVariable,      *)
(* EventHandler) given an object whose required fields are present and     *)
(* valid and whose present optional fields are valid succeeds; each field  *)
(* of the struct is the input value, or the default of an absent optional  *)
(* field; undeclared keys of the object change nothing.                    *)
(***************************************************************************)
C14_ValidObjectSucceeds ==
  (pc \in CompositeValidators /\ json[1] = "Object" /\ FailingFields(pc, json[2]) = {}) =>
    /\ result = Ok(ExpectedStruct(pc, json[2]))
    /\ result = ValidatorOf(pc, JObject(WithoutExtraKeys(pc, json[2])))

\* the composite validators that build a struct by unwrap() once errors is empty
UnwrappingValidators ==
  CompositeValidators \cup { "image_manifest::Port", "Isolator" }

(***************************************************************************)
(* C15: no composite validator (the tree Port, MountPoint,                 *)
(* EnvironmentVariable and EventHandler, the flat Port and Isolator)       *)
(* panics: when the error collection is empty every required accumulator   *)
(* is Some, so the call returns Ok or Err for every Json.                  *)
(***************************************************************************)
C15_ConstructionNeverPanics ==
  pc \in UnwrappingValidators => ~IsPanic(result)

C15_Witness ==
  /\ pc = "Isolator"
  /\ json[1] = "Object"
  /\ "value" \in DOMAIN json[2]
  /\ IsOk(result)
  /\ result[2].name = S_example

(***************************************************************************)
(* C16: an optional field gets its default only when its key is absent:    *)
(* a count, socketActivated or readOnly that is present and null, or of    *)
(* another wrong type, makes the validation fail with "must be a positive  *)
(* integer" / "must be a boolean" reported at that key.                    *)
(***************************************************************************)
C16_PresentIsNeverDefaulted ==
  /\ (pc \in { "Port", "image_manifest::Port" } /\ json[1] = "Object") =>
       /\ ("count" \in DOMAIN json[2] /\ json[2]["count"][1] # "U64") =>
            ReportsAt(result, "count", "must be a positive integer",
                      "must be a positive integer.")
       /\ ("socketActivated" \in DOMAIN json[2]
             /\ json[2]["socketActivated"][1] # "Boolean") =>
            ReportsAt(result, "socketActivated", "must be a boolean", "must be a boolean.")
  /\ (/\ pc = "MountPoint" /\ json[1] = "Object"
      /\ "readOnly" \in DOMAIN json[2] /\ json[2]["readOnly"][1] # "Boolean") =>
         /\ IsErrObject(result)
         /\ "readOnly" \in DOMAIN result[2][2]
         /\ result[2][2]["readOnly"] = Node(<<"must be a boolean">>)

C16_Witness ==
  /\ pc = "Port"
  /\ json[1] = "Object"
  /\ DOMAIN json[2] = { "count", "name", "port", "protocol" }
  /\ json[2]["count"] = JNull
  /\ IsErrObject(result)
  /\ DOMAIN result[2][2] = { "count" }

(***************************************************************************)
(* C17: Isolator::from_json of an object whose name is a valid             *)
(* ACIdentifier string and that has a value key succeeds whatever Json the *)
(* value is (null included), and stores that very Json; of an object with  *)
(* neither name nor value it fails with the two diagnostics, the name's    *)
(* first and the value's second, each prefixed by the path of its field.   *)
(***************************************************************************)
C17_Isolator ==
  (pc = "Isolator" /\ json[1] = "Object") =>
    /\ (/\ "name" \in DOMAIN json[2] /\ "value" \in DOMAIN json[2]
        /\ json[2]["name"][1] = "String" /\ IsACIdentifier(json[2]["name"][2])) =>
         result = Ok([name |-> json[2]["name"][2], value |-> json[2]["value"]])
    /\ ("name" \notin DOMAIN json[2] /\ "value" \notin DOMAIN json[2]) =>
         result = Err(<<
           path \o "[\"name\"] must be defined.\n"
                \o "https://github.com/appc/spec/blob/v0.7.4/spec/types.md#isolator-type",
           path \o "[\"value\"] must be defined.\n"
                \o "https://github.com/appc/spec/blob/v0.7.4/spec/types.md#isolator-type" >>)

C17_Witness ==
  /\ pc = "Isolator"
  /\ json = MkObject([name |-> JString(S_example), value |-> JNull])
  /\ result = Ok([name |-> S_example, value |-> JNull])

\* the messages the flat Port validator can give about the field under key k
FlatDiagnostics ==
  { "must be defined.", "must be a defined.", "must be a string.", "must be a boolean.",
    "must be a positive integer.", "must be >= 1.", "must be >= 1 and <= 65535." }
FlatMessagesAbout(k) ==
  { parse_error(path \o "[\"" \o k \o "\"]", d) : d \in FlatDiagnostics }
  \cup { path \o "[\"" \o k \o "\"] must be a valid AC Name.\n"
              \o "https://github.com/appc/spec/blob/v0.7.4/spec/types.md#ac-name-type" }

(***************************************************************************)
(* C18: on the same Json, the flat Port::from_json of image_manifest.rs    *)
(* succeeds exactly when the tree Port::from_json of port.rs does, and     *)
(* then both give the same count, name, port, protocol and                 *)
(* socket_activated; when an object fails, the flat validator gives one    *)
(* message for each key of the tree validator's Errors::Object, no more.   *)
(***************************************************************************)
C18_PortValidatorsAgree ==
  pc = "Port+image_manifest::Port" =>
    /\ IsOk(result.tree) <=> IsOk(result.flat)
    /\ IsErr(result.tree) <=> IsErr(result.flat)
    /\ IsOk(result.tree) => result.tree[2] = result.flat[2]
    /\ (json[1] = "Object" /\ IsErr(result.tree)) =>
         /\ result.tree[2][1] = "Object"
         /\ Len(result.flat[2]) = Cardinality(DOMAIN result.tree[2][2])
         /\ \A k \in DeclaredFields("Port") :
              Cardinality({ i \in 1..Len(result.flat[2]) :
                              result.flat[2][i] \in FlatMessagesAbout(k) })
                = IF k \in DOMAIN result.tree[2][2] THEN 1 ELSE 0

C18_Witness ==
  /\ pc = "Port+image_manifest::Port"
  /\ json[1] = "Object"
  /\ IsErr(result.tree)
  /\ DOMAIN result.tree[2][2] = { "count", "port" }
  /\ Len(result.flat[2]) = 2

\* the messages a call adds: the pushed one, or those of the combined Errors
Added(call) == IF call[1] = "push" THEN <<call[2]>> ELSE call[2]
RECURSIVE Concatenation(_)
\* the messages of the calls of log, in call order
Concatenation(log) ==
  IF log = <<>> THEN <<>>
  ELSE Concatenation(SubSeq(log, 1, Len(log) - 1)) \o Added(log[Len(log)])

(***************************************************************************)
(* C19: after any sequence of push and combine calls on an Errors that     *)
(* started empty, its list is the concatenation, in call order, of every   *)
(* pushed message and of the messages of every combined Errors, and        *)
(* is_empty() holds exactly when no call added a message.                  *)
(***************************************************************************)
C19_ErrorsKeepEveryMessage ==
  pc = "Errors" =>
    /\ flat_errors = Concatenation(calls)
    /\ Errors_is_empty(flat_errors) <=> \A i \in 1..Len(calls) : Added(calls[i]) = <<>>

C19_Witness ==
  /\ pc = "Errors"
  /\ Len(calls) = 3
  /\ calls[1][1] = "push"
  /\ calls[2][1] = "combine" /\ Len(calls[2][2]) = 2
  /\ calls[3][1] = "push" /\ calls[3][2] # calls[1][2]
  /\ Len(flat_errors) = 4
  /\ flat_errors[1] = calls[1][2]
  /\ flat_errors[4] = calls[3][2]

====
